---- MODULE Spec2Model ----
(***************************************************************************)
(* Model of the nearest-biome search of src/src/main.rs:                   *)
(* World::closest_adv_time_biomes and the functions it calls.              *)
(*                                                                         *)
(* Coordinates are pairs <<x, z>>.  An Option is a sequence: <<>> is None, *)
(* <<v>> is Some(v).  A JResult is a record with a field ok.               *)
(*                                                                         *)
(* The source's region is 32 x 32 chunks of 16 x 16 block columns; the     *)
(* model keeps the same layout with RegionChunks x RegionChunks chunks of  *)
(* ChunkSize x ChunkSize columns.  `v << 4` is v * ChunkSize, `v << 9` is  *)
(* v * RegionSize and `v >> 9` is the floor division by RegionSize.        *)
(***************************************************************************)
EXTENDS Integers, Sequences, FiniteSets, TLC

\* Block columns along one side of a chunk (16 in the source).
ChunkSize == 2
\* Chunks along one side of a region (32 in the source).
RegionChunks == 3
\* The search loop `for distance in 1..` is unbounded; the model stops
\* loading rings beyond this one.
MaxRing == 4

RegionSize == RegionChunks * ChunkSize

\* mcanvil::Biome, reduced to two biomes of the Adventuring Time list and
\* one (Ocean) that is not on it.
Biome == {"Desert", "Plains", "Ocean"}

\* Biome::to_string order, used by the final sort.
BiomeNames == <<"Desert", "Ocean", "Plains">>

None == <<>>
Some(v) == <<v>>

Abs(v) == IF v < 0 THEN -v ELSE v

(***************************************************************************)
(* Geometry                                                                *)
(***************************************************************************)

taxicab_distance(a, b) == Abs(b[1] - a[1]) + Abs(b[2] - a[2])

\* coords_at_distance with the third edge walked along x upwards.
coords_at_distance_edge(c, distance) ==
    [i \in 1..(4 * distance) |->
        LET e == (i - 1) \div distance
            d == (i - 1) % distance
        IN  CASE e = 0 -> <<c[1] + d, c[2] - distance + d>>
              [] e = 1 -> <<c[1] + distance - d, c[2] + d>>
              [] e = 2 -> <<c[1] + d, c[2] + distance - d>>
              [] OTHER -> <<c[1] - distance + d, c[2] - d>>]

\* The four chained edges of the diamond, in the order of the chain.
coords_at_distance(c, distance) ==
    [i \in 1..(4 * distance) |->
        LET e == (i - 1) \div distance
            d == (i - 1) % distance
        IN  CASE e = 0 -> <<c[1] + d, c[2] - distance + d>>
              [] e = 1 -> <<c[1] + distance - d, c[2] + d>>
              [] e = 2 -> <<c[1] - d, c[2] + distance - d>>
              [] OTHER -> <<c[1] - distance + d, c[2] - d>>]

(***************************************************************************)
(* State                                                                   *)
(***************************************************************************)

VARIABLES
    coords,           \* the anchor, argument of closest_adv_time_biomes
    adv_time_biomes,  \* ADV_TIME_BIOMES, the tracked biomes
    spots,            \* the world: block columns whose biome is not Ocean
    defect,           \* the world: at most one broken file, chunk or oracle answer
    pc,               \* position in closest_adv_time_biomes
    found,            \* the NearestMap
    all_found,
    regions_scanned,
    total_regions,
    distance,         \* the ring being processed
    partial_biomes,   \* regions of the ring still to fold (the save does not
                      \* change, their region_biomes are read again at the fold)
    stitched,         \* history: the region biomes_for_region was last called for
    output,           \* the lines "closest ... at ..." printed at the end
    ret,              \* return value of closest_adv_time_biomes
    first_complete,   \* history: first ring after which found was complete
    rings_loaded,     \* history: rings for which region_biomes was called
    decisions,        \* history: the rings whose end test (lines 167-175) has run
    at,               \* threads: position of the main thread
    cur_cell,         \* threads: the grid cell biomes_for_region is filling
    tasks,            \* threads: the region_biomes tasks of the ring's par_iter
    amidst,           \* threads: the holder of the Mutex World.amidst
    jvm,              \* threads: the Java invocations in progress
    arg,              \* arithmetic: the arguments of a function under test
    val               \* arithmetic: what the function gave

vars == <<coords, adv_time_biomes, spots, defect, pc, found, all_found,
          regions_scanned, total_regions, distance, partial_biomes,
          stitched, output, ret, first_complete, rings_loaded, decisions,
          at, cur_cell, tasks, amidst, jvm, arg, val>>

\* The variables of the thread-level view of a ring and of the arithmetic
\* under test; the search as a whole leaves them alone.
threads == <<at, cur_cell, tasks, amidst, jvm>>

arith == <<arg, val>>

world == <<coords, adv_time_biomes, spots, defect>>

(***************************************************************************)
(* The save on disk and the generation oracle                              *)
(***************************************************************************)

ChunkPos(p) == <<p[1] \div ChunkSize, p[2] \div ChunkSize>>

RegionOfChunk(c) == <<c[1] \div RegionChunks, c[2] \div RegionChunks>>

ChunkDefects == {"chunk_decode", "bid_unknown", "bid_invalid", "no_biomes"}

\* Chunk positions that have a chunk column in some region file.
StoredChunks ==
    {ChunkPos(s.pos) : s \in {t \in spots : t.src = "disk"}}
        \cup (IF defect.kind \in ChunkDefects THEN {defect.at} ELSE {})

\* What decoding the chunk column at chunk position c gives.
ChunkState(c) ==
    IF defect.kind \in ChunkDefects /\ defect.at = c THEN defect.kind ELSE "ok"

DiskBiome(p) ==
    IF \E s \in spots : s.src = "disk" /\ s.pos = p
    THEN (CHOOSE s \in spots : s.src = "disk" /\ s.pos = p).biome
    ELSE "Ocean"

\* chunk_col.biomes() of a chunk that decodes: biomes[bz][bx].
ChunkBiomes(c) ==
    [o \in (0..(ChunkSize - 1)) \X (0..(ChunkSize - 1)) |->
        DiskBiome(<<c[1] * ChunkSize + o[2], c[2] * ChunkSize + o[1]>>)]

\* getBiomeAt of the oracle, a function of the coordinates.
OracleBiome(p) ==
    IF \E s \in spots : s.src = "oracle" /\ s.pos = p
    THEN (CHOOSE s \in spots : s.src = "oracle" /\ s.pos = p).biome
    ELSE "Ocean"

(***************************************************************************)
(* World                                                                   *)
(***************************************************************************)

Err == [ok |-> FALSE]
Ok(v) == [ok |-> TRUE, v |-> v]

region_uncached(reg) ==
    IF defect.kind = "region_io" /\ defect.at = reg
    THEN Err
    ELSE LET cs == {c \in StoredChunks : RegionOfChunk(c) = reg}
         IN  IF cs = {} THEN Ok(None) ELSE Ok(Some(cs))

seed_biome(p) ==
    IF defect.kind = "oracle" /\ defect.at = p THEN Err ELSE Ok(OracleBiome(p))

Slots == (0..(RegionChunks - 1)) \X (0..(RegionChunks - 1))

\* buf[z_pos as usize % 32][x_pos as usize % 32]: the cast wraps modulo
\* 2^64, a multiple of 32, so the remainder is the non-negative residue.
SlotOf(c) == <<c[2] % RegionChunks, c[1] % RegionChunks>>

\* region_biomes without the arm for the -127 sentinel: every biome
\* identifier that is not known is an error.
region_biomes_strict(reg) ==
    LET r == region_uncached(reg)
    IN  IF ~r.ok THEN Err
        ELSE IF r.v = None THEN Ok([s \in Slots |-> None])
        ELSE LET cs == r.v[1]
             IN  IF \E c \in cs : ChunkState(c) \in {"chunk_decode", "bid_unknown", "bid_invalid"}
                 THEN Err
                 ELSE Ok([s \in Slots |->
                        LET here == {c \in cs : ChunkState(c) = "ok" /\ SlotOf(c) = s}
                        IN  IF here = {} THEN None
                            ELSE Some(ChunkBiomes(CHOOSE c \in here : TRUE))])

region_biomes(reg) ==
    LET r == region_uncached(reg)
    IN  IF ~r.ok THEN Err
        ELSE IF r.v = None THEN Ok([s \in Slots |-> None])
        ELSE LET cs == r.v[1]
             IN  IF \E c \in cs : ChunkState(c) \in {"chunk_decode", "bid_unknown"}
                 THEN Err
                 ELSE Ok([s \in Slots |->
                        LET here == {c \in cs : ChunkState(c) = "ok" /\ SlotOf(c) = s}
                        IN  IF here = {} THEN None
                            ELSE Some(ChunkBiomes(CHOOSE c \in here : TRUE))])

\* The grid cells <<cz, cx, bz, bx>> of a region in loop order.
NCells == RegionChunks * RegionChunks * ChunkSize * ChunkSize

CellSeq ==
    [i \in 1..NCells |->
        <<(i - 1) \div (RegionChunks * ChunkSize * ChunkSize),
          ((i - 1) \div (ChunkSize * ChunkSize)) % RegionChunks,
          ((i - 1) \div ChunkSize) % ChunkSize,
          (i - 1) % ChunkSize>>]

\* The coordinates biomes_for_region passes to seed_biome for a cell.
seed_coords(reg, c) ==
    <<reg[2] * RegionSize + c[1] * ChunkSize + c[4],
      reg[1] * RegionSize + c[2] * ChunkSize + c[3]>>

\* The coordinates closest_biomes_in_region reports for a cell.
block_coords(reg, c) ==
    <<reg[1] * RegionSize + c[2] * ChunkSize + c[4],
      reg[2] * RegionSize + c[1] * ChunkSize + c[3]>>

\* The seed_biome calls of biomes_for_region in call order, up to and
\* including the first one that fails: the grid cell that is being filled
\* and the coordinates that are passed.
oracle_queries(reg, rb) ==
    LET absent == SelectSeq(CellSeq, LAMBDA c : rb[<<c[1], c[2]>>] = None)
        calls == [i \in 1..Len(absent) |->
                    [cell |-> absent[i], at |-> seed_coords(reg, absent[i])]]
        failing == {i \in 1..Len(absent) : ~seed_biome(calls[i].at).ok}
    IN  IF failing = {} THEN calls
        ELSE SubSeq(calls, 1, CHOOSE i \in failing : \A j \in failing : i <= j)

\* The dense grid, indexed like CellSeq.
biomes_for_region(reg, rb) ==
    LET cell == [i \in 1..NCells |->
                    LET c == CellSeq[i]
                        chunk == rb[<<c[1], c[2]>>]
                    IN  IF chunk = None
                        THEN seed_biome(seed_coords(reg, c))
                        ELSE Ok(chunk[1][<<c[3], c[4]>>])]
    IN  IF \A i \in 1..NCells : cell[i].ok
        THEN Ok([i \in 1..NCells |-> cell[i].v])
        ELSE Err

\* region_insert without the comparison: the first column seen stays.
region_insert_first(anchor, m, biome, p) ==
    IF biome \notin DOMAIN m THEN m @@ (biome :> p) ELSE m

\* Lines 192-194: the entry is kept unless the new column is strictly closer.
region_insert(anchor, m, biome, p) ==
    IF biome \notin DOMAIN m THEN m @@ (biome :> p)
    ELSE IF taxicab_distance(anchor, p) < taxicab_distance(anchor, m[biome])
         THEN [m EXCEPT ![biome] = p]
         ELSE m

EmptyMap == [b \in {} |-> <<0, 0>>]

\* The columns of the map later, visited after those of the map m.
region_join(anchor, m, later) ==
    [b \in DOMAIN m \cup DOMAIN later |->
        IF b \in DOMAIN later THEN region_insert(anchor, m, b, later[b])[b] ELSE m[b]]

\* The four nested loops of lines 187-198 over the cells lo..hi in loop
\* order.  The range is halved and the second half is entered into the map
\* of the first by the rule of the loop body, which gives the map the loop
\* leaves: per biome the first of the closest cells.
RECURSIVE scan_cells(_, _, _, _, _)
scan_cells(anchor, reg, buf, lo, hi) ==
    IF lo = hi
    THEN region_insert(anchor, EmptyMap, buf[lo], block_coords(reg, CellSeq[lo]))
    ELSE region_join(anchor,
                     scan_cells(anchor, reg, buf, lo, (lo + hi) \div 2),
                     scan_cells(anchor, reg, buf, ((lo + hi) \div 2) + 1, hi))

\* closest_biomes_in_region that takes a failed stitch for an empty region.
closest_biomes_in_region_lenient(anchor, reg, rb) ==
    LET g == biomes_for_region(reg, rb)
    IN  IF ~g.ok THEN Ok(EmptyMap)
        ELSE Ok(scan_cells(anchor, reg, g.v, 1, NCells))

closest_biomes_in_region(anchor, reg, rb) ==
    LET g == biomes_for_region(reg, rb)
    IN  IF ~g.ok THEN Err
        ELSE Ok(scan_cells(anchor, reg, g.v, 1, NCells))

(***************************************************************************)
(* closest_adv_time_biomes                                                 *)
(***************************************************************************)

region_coords == <<coords[1] \div RegionSize, coords[2] \div RegionSize>>

\* found_insert with the comparison turned around.
found_insert_farther(m, biome, p) ==
    IF biome \notin adv_time_biomes THEN m
    ELSE IF biome \notin DOMAIN m THEN m @@ (biome :> p)
    ELSE IF taxicab_distance(coords, p) > taxicab_distance(coords, m[biome])
         THEN [m EXCEPT ![biome] = p]
         ELSE m

\* found_insert without the comparison: the last column seen stays.
found_insert_last(m, biome, p) ==
    IF biome \notin adv_time_biomes THEN m
    ELSE IF biome \notin DOMAIN m THEN m @@ (biome :> p)
    ELSE [m EXCEPT ![biome] = p]

\* found_insert with or_insert run before the test for a tracked biome.
found_insert_untracked(m, biome, p) ==
    IF biome \notin DOMAIN m THEN m @@ (biome :> p)
    ELSE IF biome \in adv_time_biomes
              /\ taxicab_distance(coords, p) < taxicab_distance(coords, m[biome])
         THEN [m EXCEPT ![biome] = p]
         ELSE m

\* Lines 156-158: only tracked biomes enter the map, and an entry is
\* replaced only by a strictly closer column.
found_insert(m, biome, p) ==
    IF biome \notin adv_time_biomes THEN m
    ELSE IF biome \notin DOMAIN m THEN m @@ (biome :> p)
    ELSE IF taxicab_distance(coords, p) < taxicab_distance(coords, m[biome])
         THEN [m EXCEPT ![biome] = p]
         ELSE m

\* Lines 155-159: the loop over one region's map.  Every biome is a key of
\* the region's map at most once, so the iteration order of the HashMap
\* does not show.
fold_region(m, part) ==
    [b \in DOMAIN m \cup {k \in DOMAIN part : k \in DOMAIN found_insert(m, k, part[k])} |->
        IF b \in DOMAIN part THEN found_insert(m, b, part[b])[b] ELSE m[b]]

\* Line 146: the filter of the first region's map.
filter_tracked(part) == [b \in {k \in DOMAIN part : k \in adv_time_biomes} |-> part[b]]

\* Complete with > for >=.
Complete_strict(m) == Cardinality(DOMAIN m) > Cardinality(adv_time_biomes)

\* Line 169: found.len() >= ADV_TIME_BIOMES.len()
Complete(m) == Cardinality(DOMAIN m) >= Cardinality(adv_time_biomes)

\* Line 167: the loop is left once two rings have ended with all found.
ring_break_late(n) == n >= 3

\* The loop left once one ring has ended with all found.
ring_break_early(n) == n >= 1

ring_break(n) == n >= 2

NameRank(b) == CHOOSE i \in 1..Len(BiomeNames) : BiomeNames[i] = b

\* sort_key with x and z in the order of the coordinate pair.
sort_key_xz(b, p) == <<taxicab_distance(coords, p), p[1], p[2], NameRank(b)>>

\* The key of sorted_by_key at line 178.
sort_key(b, p) == <<taxicab_distance(coords, p), p[2], p[1], NameRank(b)>>

KeyLess(k, l) ==
    \E i \in 1..4 : k[i] < l[i] /\ \A j \in 1..(i - 1) : k[j] = l[j]

RECURSIVE sorted_entries(_, _)
sorted_entries(m, todo) ==
    IF todo = {} THEN <<>>
    ELSE LET b == CHOOSE x \in todo : \A y \in todo \ {x} :
                      KeyLess(sort_key(x, m[x]), sort_key(y, m[y]))
         IN  <<[biome |-> b, at |-> m[b], dist |-> taxicab_distance(coords, m[b])]>>
                 \o sorted_entries(m, todo \ {b})

Fail ==
    /\ pc' = "err"
    /\ ret' = Some(Err)
    /\ UNCHANGED <<found, all_found, regions_scanned, total_regions, distance,
                   partial_biomes, output, first_complete>>

\* Lines 145-149: the region of the anchor.
ScanRing0 ==
    /\ pc = "start"
    /\ rings_loaded' = rings_loaded \cup {0}
    /\ LET rb == region_biomes(region_coords)
       IN  IF ~rb.ok
           THEN Fail /\ UNCHANGED stitched
           ELSE LET r == closest_biomes_in_region(coords, region_coords, rb.v)
                IN  /\ stitched' = Some(region_coords)
                    /\ IF ~r.ok
                       THEN Fail
                       ELSE /\ found' = filter_tracked(r.v)
                            /\ all_found' = 0
                            /\ regions_scanned' = 1
                            /\ total_regions' = None
                            /\ distance' = 1
                            /\ first_complete' =
                                 IF Complete(found') THEN Some(0) ELSE None
                            /\ pc' = "load"
                            /\ UNCHANGED <<partial_biomes, output, ret>>
    /\ UNCHANGED <<world, decisions, threads, arith>>

\* Lines 151-153: region_biomes of every region of the ring.
LoadRing ==
    /\ pc = "load"
    /\ distance <= MaxRing
    /\ rings_loaded' = rings_loaded \cup {distance}
    /\ LET ring == coords_at_distance(region_coords, distance)
       IN  IF \E i \in 1..Len(ring) : ~region_biomes(ring[i]).ok
           THEN Fail
           ELSE /\ partial_biomes' = ring
                /\ pc' = "fold"
                /\ UNCHANGED <<found, all_found, regions_scanned, total_regions,
                               distance, output, ret, first_complete>>
    /\ UNCHANGED <<world, stitched, decisions, threads, arith>>

\* Lines 154-166: one region of the ring is stitched and folded.
FoldRegion ==
    /\ pc = "fold"
    /\ partial_biomes # <<>>
    /\ LET reg == Head(partial_biomes)
           r == closest_biomes_in_region(coords, reg, region_biomes(reg).v)
       IN  /\ stitched' = Some(reg)
           /\ IF ~r.ok
              THEN Fail
              ELSE /\ found' = fold_region(found, r.v)
                   /\ regions_scanned' = regions_scanned + 1
                   /\ partial_biomes' = Tail(partial_biomes)
                   /\ UNCHANGED <<pc, all_found, total_regions, distance, output,
                                  ret, first_complete>>
    /\ UNCHANGED <<world, rings_loaded, decisions, threads, arith>>

\* The end of the ring with its last region still to fold.
ring_folded_but_one == Len(partial_biomes) <= 1

\* The loop of line 154 has run through the regions of the ring.
ring_folded == partial_biomes = <<>>

\* Lines 167-175: the decision at the end of a ring.
EndRing ==
    /\ pc = "fold"
    /\ ring_folded
    /\ decisions' = Append(decisions, distance)
    /\ first_complete' =
         IF first_complete = None /\ Complete(found) THEN Some(distance)
         ELSE first_complete
    /\ IF ring_break(all_found)
       THEN /\ pc' = "finish"
            /\ UNCHANGED <<all_found, total_regions, distance>>
       ELSE /\ pc' = "load"
            /\ distance' = distance + 1
            /\ IF Complete(found)
               THEN /\ all_found' = all_found + 1
                    /\ total_regions' =
                         IF total_regions = None
                         THEN Some(regions_scanned
                                   + Len(coords_at_distance(region_coords, distance + 1))
                                   + Len(coords_at_distance(region_coords, distance + 2)))
                         ELSE total_regions
               ELSE UNCHANGED <<all_found, total_regions>>
    /\ UNCHANGED <<world, found, regions_scanned, partial_biomes, stitched,
                   output, ret, rings_loaded, threads, arith>>

\* Lines 177-182: the sorted report and the return value.
Finish ==
    /\ pc = "finish"
    /\ output' = sorted_entries(found, DOMAIN found)
    /\ ret' = Some(Ok(found))
    /\ pc' = "done"
    /\ UNCHANGED <<world, found, all_found, regions_scanned, total_regions,
                   distance, partial_biomes, stitched, first_complete,
                   rings_loaded, decisions, threads, arith>>

(***************************************************************************)
(* The worlds and anchors the search is run on                             *)
(***************************************************************************)

\* The far corner of the anchor's region when the anchor is Corner.
Corner == <<RegionSize - 1, RegionSize - 1>>

Anchors == {Corner, <<0, 0>>, <<-1, -2>>}

\* Block columns that may carry a tracked biome: the anchor's own column,
\* the far corner of its region, a near and a far column of ring 1, a near
\* column of ring 2 and a near column of ring 4 (as seen from Corner).
Positions ==
    {Corner, <<0, 0>>, <<RegionSize, RegionSize - 1>>, <<-RegionSize, 0>>,
     <<RegionSize, RegionSize>>, <<2 * RegionSize, 2 * RegionSize>>}

Features == [pos : Positions, biome : {"Desert", "Plains"}, src : {"disk", "oracle"}]

Spots1 == {{}} \cup {{f} : f \in Features}

\* Up to two columns, in different places; a pair comes from one source.
Spots2 ==
    Spots1 \cup UNION {{{f, g} : g \in {h \in Features : h.pos # f.pos /\ h.src = f.src}} :
                         f \in Features}

\* The worlds that are combined with every anchor and every defect.
Spots0 ==
    {{},
     {[pos |-> <<0, 0>>, biome |-> "Desert", src |-> "disk"]},
     {[pos |-> <<RegionSize, RegionSize>>, biome |-> "Plains", src |-> "oracle"]}}

\* Worlds around the anchor <<0, 0>>: two tracked biomes at the same distance
\* in the same row, the same in different rows, and one column in the far
\* corner of the anchor's region.
Spots3 ==
    {{[pos |-> <<1, 0>>, biome |-> "Desert", src |-> "disk"],
      [pos |-> <<-1, 0>>, biome |-> "Plains", src |-> "disk"]},
     {[pos |-> <<1, 0>>, biome |-> "Desert", src |-> "disk"],
      [pos |-> <<0, 1>>, biome |-> "Plains", src |-> "disk"]},
     {[pos |-> Corner, biome |-> "Desert", src |-> "disk"]}}

NoDefect == [kind |-> "none", at |-> <<0, 0>>]

\* Chunk <<0, 0>> is stored without biomes that can be used.
Gaps == [kind : {"bid_invalid", "no_biomes"}, at : {<<0, 0>>}]

Defects ==
    {NoDefect}
        \cup [kind : {"region_io"}, at : {<<0, 0>>, <<1, 0>>}]
        \cup [kind : ChunkDefects, at : {<<0, 0>>, ChunkPos(<<RegionSize, RegionSize - 1>>)}]
        \cup [kind : {"oracle"}, at : {<<1, 1>>, <<RegionSize, RegionSize>>}]

Init ==
    /\ \/ /\ coords = Corner
          /\ adv_time_biomes \in {{"Desert"}, {"Desert", "Plains"}}
          /\ spots \in Spots2
          /\ defect = NoDefect
       \/ /\ coords \in Anchors
          /\ adv_time_biomes \in {{}, {"Desert", "Plains"}}
          /\ spots \in Spots0
          /\ defect \in Defects
       \/ /\ coords = <<0, 0>>
          /\ adv_time_biomes = {"Desert", "Plains"}
          /\ spots \in Spots3
          /\ defect \in {NoDefect} \cup Gaps
    /\ pc = "start"
    /\ found = EmptyMap
    /\ all_found = 0
    /\ regions_scanned = 0
    /\ total_regions = None
    /\ distance = 0
    /\ partial_biomes = <<>>
    /\ stitched = None
    /\ output = <<>>
    /\ ret = None
    /\ first_complete = None
    /\ rings_loaded = {}
    /\ decisions = <<>>
    /\ at = <<"idle", 0>>
    /\ cur_cell = 0
    /\ tasks = <<>>
    /\ amidst = None
    /\ jvm = {}
    /\ arg = <<>>
    /\ val = <<>>

Next == ScanRing0 \/ LoadRing \/ FoldRegion \/ EndRing \/ Finish

Spec == Init /\ [][Next]_vars

\* The function runs in one thread that is not stopped from outside: every
\* call it makes returns (the file reads, the tasks of the ring, the calls
\* into the JVM), so a step that can be taken is taken.  This is weak
\* fairness of every action; for ScanRing0 and FoldRegion it is written with
\* the condition under which the action can be taken (its guard; each run of
\* it changes pc, partial_biomes or regions_scanned).
FairSpec ==
    /\ Spec
    /\ WF_vars(LoadRing)
    /\ WF_vars(EndRing)
    /\ WF_vars(Finish)
    /\ []<>(pc # "start") \/ []<><<ScanRing0>>_vars
    /\ []<>~(pc = "fold" /\ partial_biomes # <<>>) \/ []<><<FoldRegion>>_vars

(***************************************************************************)
(* The threads of a ring                                                   *)
(*                                                                         *)
(* The same function seen thread by thread: the region_biomes calls of a   *)
(* ring are tasks of the rayon pool (coords_at_distance is a parallel      *)
(* iterator, lines 151-153), everything else runs in the calling thread,   *)
(* the stitch and its seed_biome calls included (lines 154-155).  The      *)
(* position of the calling thread is a pair <<step, k>>; the scan and the  *)
(* fold of a stitched region are those of FoldRegion and are not repeated  *)
(* here, and the rings 0..ThreadRings are taken.                           *)
(***************************************************************************)

\* Threads of the rayon pool that run tasks at the same time.
PoolSize == 2

\* The last ring the thread-level view goes through.
ThreadRings == 1

\* The Java methods seed_biome invokes, in the order of lines 101-106.
Methods == <<"getBiomeDataOracle", "getBiomeAt", "getName">>

\* The guard dropped with the inner invoke expression of line 102.
guard_dropped_after_inner == "getBiomeDataOracle"

\* self.amidst.lock() is a temporary of the let statement of lines 101-105:
\* the guard is dropped when the statement ends, after getBiomeAt.
guard_dropped_after == "getBiomeAt"

\* What the thread-level actions leave alone.
search_rest ==
    <<world, pc, found, all_found, regions_scanned, total_regions, stitched,
      output, ret, first_complete, rings_loaded, decisions, arith>>

\* The first cell after cell n of region reg whose chunk slot is absent, 0
\* when there is none: the next cell biomes_for_region asks the oracle for.
NextAbsent(reg, n) ==
    LET rb == region_biomes(reg).v
        todo == {i \in (n + 1)..NCells : rb[<<CellSeq[i][1], CellSeq[i][2]>>] = None}
    IN  IF todo = {} THEN 0 ELSE CHOOSE i \in todo : \A j \in todo : i <= j

\* Line 146: region_biomes of the anchor's region, in the calling thread.
Ring0Load ==
    /\ at = <<"start", 0>>
    /\ IF region_biomes(region_coords).ok
       THEN at' = <<"stitch", 0>> /\ partial_biomes' = <<region_coords>>
       ELSE at' = <<"err", 0>> /\ UNCHANGED partial_biomes
    /\ UNCHANGED <<search_rest, distance, cur_cell, tasks, amidst, jvm>>

\* Lines 128-139: biomes_for_region goes to the next cell of an absent chunk
\* slot; when there is none the region is scanned and folded (lines 155-166)
\* and the next region of the ring is taken.
NextCell ==
    /\ at = <<"stitch", 0>>
    /\ LET n == NextAbsent(Head(partial_biomes), cur_cell)
       IN  IF n # 0
           THEN /\ cur_cell' = n
                /\ at' = <<"lock", 0>>
                /\ UNCHANGED partial_biomes
           ELSE /\ cur_cell' = 0
                /\ partial_biomes' = Tail(partial_biomes)
                /\ at' = IF Tail(partial_biomes) = <<>> THEN <<"ring_end", 0>>
                         ELSE <<"stitch", 0>>
    /\ UNCHANGED <<search_rest, distance, tasks, amidst, jvm>>

\* Line 102: self.amidst.lock()
LockAmidst ==
    /\ at = <<"lock", 0>>
    /\ amidst = None
    /\ amidst' = Some("main")
    /\ at' = <<"call", 1>>
    /\ UNCHANGED <<search_rest, distance, partial_biomes, cur_cell, tasks, jvm>>

\* jvm.invoke of the k-th method begins.
Invoke(k) ==
    /\ at = <<"call", k>>
    /\ jvm' = jvm \cup {[by |-> "main", method |-> Methods[k]]}
    /\ at' = <<"in", k>>
    /\ UNCHANGED <<search_rest, distance, partial_biomes, cur_cell, tasks, amidst>>

\* jvm.invoke of the k-th method returns; an Err leaves seed_biome by `?`,
\* which drops the guard too.
Return(k) ==
    /\ at = <<"in", k>>
    /\ jvm' = jvm \ {[by |-> "main", method |-> Methods[k]]}
    /\ LET fails == /\ k = 2
                     /\ ~seed_biome(seed_coords(Head(partial_biomes), CellSeq[cur_cell])).ok
       IN  /\ amidst' = IF fails \/ Methods[k] = guard_dropped_after THEN None ELSE amidst
           /\ at' = IF fails THEN <<"err", 0>>
                    ELSE IF k < Len(Methods) THEN <<"call", k + 1>>
                    ELSE <<"stitch", 0>>
    /\ UNCHANGED <<search_rest, distance, partial_biomes, cur_cell, tasks>>

\* Lines 150-151: the next ring; one region_biomes task per region.
SpawnRing ==
    /\ at = <<"ring_end", 0>>
    /\ IF distance < ThreadRings
       THEN /\ distance' = distance + 1
            /\ tasks' = [i \in 1..(4 * (distance + 1)) |-> "queued"]
            /\ at' = <<"join", 0>>
       ELSE /\ at' = <<"done", 0>>
            /\ UNCHANGED <<distance, tasks>>
    /\ UNCHANGED <<search_rest, partial_biomes, cur_cell, amidst, jvm>>

\* A thread of the pool takes the task of the i-th region of the ring.
TaskBegin(i) ==
    /\ at = <<"join", 0>>
    /\ tasks[i] = "queued"
    /\ Cardinality({j \in DOMAIN tasks : tasks[j] = "running"}) < PoolSize
    /\ tasks' = [tasks EXCEPT ![i] = "running"]
    /\ UNCHANGED <<search_rest, distance, partial_biomes, at, cur_cell, amidst, jvm>>

\* Line 152: the task's region_biomes call returns.
TaskEnd(i) ==
    /\ at = <<"join", 0>>
    /\ tasks[i] = "running"
    /\ tasks' = [tasks EXCEPT ![i] =
                    IF region_biomes(coords_at_distance(region_coords, distance)[i]).ok
                    THEN "ok" ELSE "err"]
    /\ UNCHANGED <<search_rest, distance, partial_biomes, at, cur_cell, amidst, jvm>>

\* Line 153: collect returns when no task runs any more, with the regions in
\* the order of the ring or with the error of a task; after an error the
\* tasks not yet taken need not be run.
Collect ==
    /\ at = <<"join", 0>>
    /\ \A i \in DOMAIN tasks : tasks[i] # "running"
    /\ \/ \A i \in DOMAIN tasks : tasks[i] = "ok"
       \/ \E i \in DOMAIN tasks : tasks[i] = "err"
    /\ IF \E i \in DOMAIN tasks : tasks[i] = "err"
       THEN at' = <<"err", 0>> /\ UNCHANGED partial_biomes
       ELSE /\ at' = <<"stitch", 0>>
            /\ partial_biomes' = coords_at_distance(region_coords, distance)
    /\ tasks' = <<>>
    /\ UNCHANGED <<search_rest, distance, cur_cell, amidst, jvm>>

\* The saves the thread-level view is run on.
ThreadDefects ==
    {NoDefect,
     [kind |-> "region_io", at |-> <<1, 0>>],
     [kind |-> "oracle", at |-> <<1, 1>>]}

ThreadInit ==
    /\ coords = Corner
    /\ adv_time_biomes = {"Desert", "Plains"}
    /\ spots \in {{}, {[pos |-> <<0, 0>>, biome |-> "Desert", src |-> "disk"]}}
    /\ defect \in ThreadDefects
    /\ pc = "start"
    /\ found = EmptyMap
    /\ all_found = 0
    /\ regions_scanned = 0
    /\ total_regions = None
    /\ distance = 0
    /\ partial_biomes = <<>>
    /\ stitched = None
    /\ output = <<>>
    /\ ret = None
    /\ first_complete = None
    /\ rings_loaded = {}
    /\ decisions = <<>>
    /\ at = <<"start", 0>>
    /\ cur_cell = 0
    /\ tasks = <<>>
    /\ amidst = None
    /\ jvm = {}
    /\ arg = <<>>
    /\ val = <<>>

ThreadNext ==
    \/ Ring0Load
    \/ NextCell
    \/ LockAmidst
    \/ \E k \in 1..Len(Methods) : Invoke(k)
    \/ \E k \in 1..Len(Methods) : Return(k)
    \/ SpawnRing
    \/ \E i \in DOMAIN tasks : TaskBegin(i)
    \/ \E i \in DOMAIN tasks : TaskEnd(i)
    \/ Collect

ThreadSpec == ThreadInit /\ [][ThreadNext]_vars

(***************************************************************************)
(* The arithmetic on coordinates                                           *)
(*                                                                         *)
(* The shifts, the cast and the sums of lines 120, 145, 191 and 319-321    *)
(* with the source's constants (a region is 2^9 blocks wide, a chunk 2^4,  *)
(* a region has 32 chunk slots a side) on integers of IntBits bits for     *)
(* i32 and u32 and of UsizeBits bits for usize.                            *)
(***************************************************************************)

\* Width of i32 and u32 (32 in the source).
IntBits == 12

\* Width of usize (64 on the build's target).
UsizeBits == 16

MinInt == -(2 ^ (IntBits - 1))

MaxInt == (2 ^ (IntBits - 1)) - 1

\* A result that is out of range, kept to IntBits bits in two's complement.
Wrap(v) == ((v - MinInt) % (2 ^ IntBits)) + MinInt

\* v >> k on a signed integer.
Shr(v, k) == v \div (2 ^ k)

\* v << k
Shl(v, k) == Wrap(v * (2 ^ k))

\* v as usize: the sign is extended.
AsUsize(v) == v % (2 ^ UsizeBits)

\* The remainder of Rust's % on signed integers, with the sign of v.
slot_index_signed(v) == IF v >= 0 THEN v % 32 ELSE -((-v) % 32)

\* Line 120: chunk_col.level.z_pos as usize % 32
slot_index(v) == AsUsize(v) % 32

\* Line 145: coords[0] >> 9
region_of(v) == Shr(v, 9)

\* Line 191: (rx << 9) + ((cx as i32) << 4) + bx as i32
block_of(r, c, o) == Wrap(Wrap(Shl(r, 9) + Shl(c, 4)) + o)

\* Lines 319-321 as the build computes them.  A debug build panics when the
\* subtraction, abs or the sum overflows (the result is None); a release
\* build wraps: abs of the least integer is that integer, which `as u32`
\* turns into 2^(IntBits-1), and the sum is taken modulo 2^IntBits.
taxicab_i32(p, q, build) ==
    LET dx == q[1] - p[1]
        dz == q[2] - p[2]
        ax == Wrap(Abs(Wrap(dx))) % (2 ^ IntBits)
        az == Wrap(Abs(Wrap(dz))) % (2 ^ IntBits)
        overflow == \/ dx # Wrap(dx)
                    \/ dz # Wrap(dz)
                    \/ dx = MinInt
                    \/ dz = MinInt
                    \/ ax + az >= 2 ^ IntBits
    IN  IF build = "debug" /\ overflow THEN None
        ELSE Some((ax + az) % (2 ^ IntBits))

\* Coordinates at the ends and in the middle of the range.
EdgeValues == {MinInt, -1, 0, 1, MaxInt}

EdgePoints == EdgeValues \X EdgeValues

ArithInit ==
    /\ \/ \E x \in MinInt..MaxInt : arg = <<"block", <<x, MaxInt - (x - MinInt)>>, <<0, 0>>>>
       \/ \E a, b \in EdgePoints : arg = <<"pair", a, b>>
    /\ val = <<>>
    /\ coords = <<0, 0>>
    /\ adv_time_biomes = {}
    /\ spots = {}
    /\ defect = NoDefect
    /\ pc = "start"
    /\ found = EmptyMap
    /\ all_found = 0
    /\ regions_scanned = 0
    /\ total_regions = None
    /\ distance = 0
    /\ partial_biomes = <<>>
    /\ stitched = None
    /\ output = <<>>
    /\ ret = None
    /\ first_complete = None
    /\ rings_loaded = {}
    /\ decisions = <<>>
    /\ at = <<"idle", 0>>
    /\ cur_cell = 0
    /\ tasks = <<>>
    /\ amidst = None
    /\ jvm = {}

\* What the arithmetic leaves alone.
search_all ==
    <<world, pc, found, all_found, regions_scanned, total_regions, distance,
      partial_biomes, stitched, output, ret, first_complete, rings_loaded,
      decisions, threads>>

\* A block coordinate pair is taken apart as the code does and put together
\* again: the region (line 145), the slot of its chunk (line 120; the chunk
\* position of a block is block >> 4), the offset in the chunk, and the
\* block coordinate of that region, slot and offset (line 191).
SplitBlock ==
    /\ arg[1] = "block"
    /\ val = <<>>
    /\ LET b == arg[2]
           region == [i \in 1..2 |-> region_of(b[i])]
           slot == [i \in 1..2 |-> slot_index(Shr(b[i], 4))]
           offset == [i \in 1..2 |-> b[i] % 16]
       IN  val' = <<[region |-> region, slot |-> slot, offset |-> offset,
                     block |-> [i \in 1..2 |->
                                  block_of(region[i], slot[i], offset[i])]]>>
    /\ UNCHANGED <<arg, search_all>>

\* taxicab_distance of the pair, in a debug or in a release build.
Taxicab ==
    /\ arg[1] = "pair"
    /\ val = <<>>
    /\ \E build \in {"debug", "release"} :
          val' = <<[build |-> build, d |-> taxicab_i32(arg[2], arg[3], build)]>>
    /\ UNCHANGED <<arg, search_all>>

ArithNext == SplitBlock \/ Taxicab

ArithSpec == ArithInit /\ [][ArithNext]_vars

(***************************************************************************)
(* Properties                                                              *)
(***************************************************************************)

Dist(p) == taxicab_distance(coords, p)

Stopped == pc \in {"finish", "done"}

\* Regions in the rings 0..d.
RegionsUpTo(d) == 1 + 2 * d * (d + 1)

\* The block column p has biomes on disk.
OnDisk(p) == ChunkPos(p) \in StoredChunks /\ ChunkState(ChunkPos(p)) = "ok"

\* The biome the block column p carries: its chunk's data when the chunk is
\* on disk with valid biomes, what generation would give otherwise.
WorldBiome(p) == IF OnDisk(p) THEN DiskBiome(p) ELSE OracleBiome(p)

\* C1: when the search ends normally, the coordinate reported for a tracked
\* biome is a column of that biome and no column of the world that carries
\* the biome (on disk or as generation would give it) is closer to the
\* anchor.
C1_GloballyMinimal ==
    pc = "done" =>
        \A b \in adv_time_biomes :
            /\ b \in DOMAIN found
            /\ WorldBiome(found[b]) = b
            /\ \A s \in spots : WorldBiome(s.pos) = b => Dist(found[b]) <= Dist(s.pos)

\* C2: when ring d >= 1 is the first ring after which every tracked biome
\* has an entry, no ring beyond d + 2 is ever loaded, and the search stops
\* after ring d + 2 with every region of the rings 0..d+2 scanned.
C2_TwoConvergenceRings ==
    (first_complete # None /\ first_complete[1] >= 1) =>
        LET d == first_complete[1]
        IN  /\ rings_loaded \subseteq 0..(d + 2)
            /\ distance <= d + 2
            /\ Stopped => /\ distance = d + 2
                          /\ rings_loaded = 0..(d + 2)
                          /\ regions_scanned = RegionsUpTo(d + 2)

C2_Witness ==
    /\ pc = "done"
    /\ first_complete = Some(2)
    /\ distance = 4
    /\ Cardinality(adv_time_biomes) = 2

\* C3: when the (non-empty) tracked set is complete after ring 0, exactly
\* the rings 1 and 2 are processed after it and ring 3 is never loaded.
C3_CompleteAtRing0 ==
    (adv_time_biomes # {} /\ first_complete = Some(0)) =>
        /\ rings_loaded \subseteq 0..2
        /\ Stopped => distance = 2

\* C4: with an empty tracked set no region of ring 1 or of a later ring is
\* loaded, and the map returned is empty.
C4_EmptyTrackedSet ==
    adv_time_biomes = {} =>
        /\ rings_loaded \subseteq {0}
        /\ pc = "done" => ret = Some(Ok(EmptyMap))

\* C5: every seed_biome call of the last stitched region passes the block
\* coordinates that closest_biomes_in_region reports for the grid cell the
\* answer is stored in.
C5_OracleCoordinates ==
    stitched # None =>
        LET reg == stitched[1]
            q == oracle_queries(reg, region_biomes(reg).v)
        IN  \A i \in 1..Len(q) : q[i].at = block_coords(reg, q[i].cell)

\* C6: at every step of the search every biome that has an entry keeps an
\* entry, and the distance of its entry to the anchor does not grow.
C6_Monotone ==
    [][\A b \in DOMAIN found :
          b \in DOMAIN found' /\ Dist(found'[b]) <= Dist(found[b])]_vars

\* A biome whose entry in the anchor's region has been replaced by a closer
\* column of a later ring.
C6_Witness ==
    /\ pc = "fold"
    /\ \E b \in DOMAIN found :
          /\ <<found[b][1] \div RegionSize, found[b][2] \div RegionSize>> # region_coords
          /\ \E s \in spots :
                /\ s.biome = b
                /\ s.src = "disk"
                /\ <<s.pos[1] \div RegionSize, s.pos[2] \div RegionSize>> = region_coords
                /\ Dist(found[b]) < Dist(s.pos)

\* C7: the stitch of a region asks the oracle for no block column that has
\* biomes on disk, and exactly once for every block column of an absent
\* chunk slot of the region.
C7_OracleCallsPerColumn ==
    (stitched # None /\ pc # "err") =>
        LET reg == stitched[1]
            rb == region_biomes(reg).v
            q == oracle_queries(reg, rb)
        IN  /\ \A j \in 1..Len(q) : ~OnDisk(q[j].at)
            /\ \A i \in 1..NCells :
                  LET c == CellSeq[i]
                  IN  rb[<<c[1], c[2]>>] = None =>
                         Cardinality({j \in 1..Len(q) : q[j].at = block_coords(reg, c)}) = 1

Range(f) == {f[i] : i \in DOMAIN f}

\* C8: the ring of the present distance around a centre (the anchor's
\* region, and the region that is folded next) has 4 * distance coordinates,
\* no two equal, all at that taxicab distance from the centre, and it holds
\* every coordinate at that distance.
C8_RingExact ==
    distance >= 1 =>
        \A c \in {region_coords}
                    \cup (IF partial_biomes = <<>> THEN {} ELSE {Head(partial_biomes)}) :
            LET ring == coords_at_distance(c, distance)
            IN  /\ Len(ring) = 4 * distance
                /\ \A i, j \in 1..Len(ring) : ring[i] = ring[j] => i = j
                /\ \A i \in 1..Len(ring) : taxicab_distance(c, ring[i]) = distance
                /\ \A x \in (c[1] - distance)..(c[1] + distance) :
                      \A z \in (c[2] - distance)..(c[2] + distance) :
                         taxicab_distance(c, <<x, z>>) = distance
                            => <<x, z>> \in Range(ring)

C8_Witness ==
    /\ pc = "fold"
    /\ distance = 3
    /\ region_coords = <<-1, -1>>
    /\ Len(partial_biomes) = 12

\* The fold of the maps parts[order[1]], parts[order[2]], ... into m.
RECURSIVE fold_in_order(_, _, _)
fold_in_order(m, parts, order) ==
    IF order = <<>> THEN m
    ELSE fold_in_order(fold_region(m, parts[Head(order)]), parts, Tail(order))

Distances(m) == [b \in DOMAIN m |-> Dist(m[b])]

\* The orders a ring of n regions is folded in: every permutation of a ring
\* of four, the reverse and every exchange of two neighbours otherwise.
Orders(n) ==
    IF n = 4
    THEN {o \in [1..4 -> 1..4] : \A i, j \in 1..4 : o[i] = o[j] => i = j}
    ELSE {[i \in 1..n |-> n + 1 - i]}
            \cup {[i \in 1..n |-> IF i = k THEN k + 1 ELSE IF i = k + 1 THEN k ELSE i] :
                    k \in 1..(n - 1)}

\* The maps of the regions regs, in their order.
RECURSIVE ring_parts(_)
ring_parts(regs) ==
    IF regs = <<>> THEN <<>>
    ELSE <<closest_biomes_in_region(coords, Head(regs), region_biomes(Head(regs)).v)>>
            \o ring_parts(Tail(regs))

AllOk(rp) == \A i \in 1..Len(rp) : rp[i].ok

Values(rp) == [i \in 1..Len(rp) |-> rp[i].v]

\* C9: at the start of a ring, folding the maps of its regions in another
\* order, or folding them into one map first and that map into the running
\* map, gives every biome the distance that the order of the code gives.
C9_OrderIndependent ==
    (pc = "fold" /\ Len(partial_biomes) = 4 * distance) =>
        LET rp == ring_parts(partial_biomes)
            n == Len(partial_biomes)
            code == Distances(fold_in_order(found, Values(rp), [i \in 1..n |-> i]))
        IN  AllOk(rp) =>
               /\ \A o \in Orders(n) :
                     Distances(fold_in_order(found, Values(rp), o)) = code
               /\ Distances(fold_region(found,
                      fold_in_order(EmptyMap, Values(rp), [i \in 1..n |-> i]))) = code

\* Two regions of ring 1 hold the same tracked biome at different distances.
C9_Witness ==
    /\ pc = "fold"
    /\ distance = 1
    /\ Len(partial_biomes) = 4
    /\ LET rp == ring_parts(partial_biomes)
       IN  /\ AllOk(rp)
           /\ \E i, j \in 1..4 : \E b \in adv_time_biomes :
                 /\ i < j
                 /\ b \in DOMAIN rp[i].v
                 /\ b \in DOMAIN rp[j].v
                 /\ Dist(rp[i].v[b]) < Dist(rp[j].v[b])

\* The stitch of region reg fails: its last seed_biome call is a failure.
StitchFails(reg) ==
    LET q == oracle_queries(reg, region_biomes(reg).v)
    IN  q # <<>> /\ ~seed_biome(q[Len(q)].at).ok

\* The step that is taken next meets a failing load or a failing stitch.
StepFails ==
    \/ /\ pc = "start"
       /\ ~region_biomes(region_coords).ok \/ StitchFails(region_coords)
    \/ /\ pc = "load"
       /\ distance <= MaxRing
       /\ \E r \in Range(coords_at_distance(region_coords, distance)) : ~region_biomes(r).ok
    \/ /\ pc = "fold"
       /\ partial_biomes # <<>>
       /\ StitchFails(Head(partial_biomes))

\* C10: a step that meets a failing region load, chunk decode or oracle call
\* ends the search with the error; that step and every later one fold
\* nothing into the map, start no ring and print no result.
C10_FailFast ==
    [][/\ StepFails => pc' = "err"
       /\ (pc = "err" \/ pc' = "err") =>
             /\ pc' = "err"
             /\ ret' = Some(Err)
             /\ output' = <<>>
             /\ found' = found
             /\ regions_scanned' = regions_scanned
             /\ distance' = distance
             /\ partial_biomes' = partial_biomes
             /\ rings_loaded' \subseteq rings_loaded \cup {distance}]_vars

\* The search has failed in a ring after ring 0 with a biome already found.
C10_Witness ==
    /\ pc = "err"
    /\ distance >= 1
    /\ DOMAIN found # {}
    /\ output = <<>>
    /\ ret = Some(Err)

\* The regions region_biomes has been called for in the last load.
JustLoaded ==
    IF pc = "start" THEN {}
    ELSE IF distance >= 1 /\ (pc = "err" \/ (pc = "fold" /\ Len(partial_biomes) = 4 * distance))
         THEN Range(coords_at_distance(region_coords, distance))
         ELSE {region_coords}

\* The chunk positions that belong to the file of region reg.
ChunksOf(reg) ==
    {<<reg[1] * RegionChunks + i, reg[2] * RegionChunks + j>> :
        i \in 0..(RegionChunks - 1), j \in 0..(RegionChunks - 1)}

\* The file of region reg is there and cannot be read, or one of its chunk
\* columns does not decode or has a biome identifier that is not known.
LoadFault(reg) ==
    \/ defect.kind = "region_io" /\ defect.at = reg
    \/ \E c \in ChunksOf(reg) \cap StoredChunks :
          ChunkState(c) \in {"chunk_decode", "bid_unknown"}

\* C11: region_biomes of a loaded region fails exactly when the region has a
\* load fault; when it succeeds, the slot [z index][x index] of every chunk
\* position of the region holds the chunk's biomes if the chunk is stored
\* with valid biomes and is absent otherwise (no file, no chunk, the -127
\* sentinel, no biome data).
C11_LoadFailure ==
    \A reg \in JustLoaded :
        LET r == region_biomes(reg)
        IN  /\ r.ok <=> ~LoadFault(reg)
            /\ r.ok =>
                  \A i, j \in 0..(RegionChunks - 1) :
                      LET c == <<reg[1] * RegionChunks + i, reg[2] * RegionChunks + j>>
                      IN  r.v[<<j, i>>] =
                             IF c \in StoredChunks /\ ChunkState(c) = "ok"
                             THEN Some(ChunkBiomes(c))
                             ELSE None

\* The anchor's region has been loaded without an error from a file with a
\* chunk that carries the sentinel and a chunk with valid biomes.
C11_Witness ==
    /\ pc = "load"
    /\ distance = 1
    /\ defect.kind = "bid_invalid"
    /\ RegionOfChunk(defect.at) = region_coords
    /\ \E c \in ChunksOf(region_coords) \cap StoredChunks : ChunkState(c) = "ok"

\* The entry e comes before the entry f, or is f: distance, then z, then x,
\* then the name.
EntryLeq(e, f) ==
    \/ e.dist < f.dist
    \/ /\ e.dist = f.dist
       /\ \/ e.at[2] < f.at[2]
          \/ /\ e.at[2] = f.at[2]
             /\ \/ e.at[1] < f.at[1]
                \/ /\ e.at[1] = f.at[1]
                   /\ NameRank(e.biome) <= NameRank(f.biome)

\* C12: when the search is done, the printed list has one line for every
\* entry of the map and no other line, with the entry's coordinate and its
\* distance to the anchor, and the lines are in the order of (distance, z,
\* x, name).
C12_SortedOutput ==
    pc = "done" =>
        /\ Len(output) = Cardinality(DOMAIN found)
        /\ \A b \in DOMAIN found :
              \E i \in 1..Len(output) :
                 /\ output[i] = [biome |-> b, at |-> found[b], dist |-> Dist(found[b])]
                 /\ \A j \in 1..Len(output) : output[j].biome = b => j = i
        /\ \A i \in 1..(Len(output) - 1) : EntryLeq(output[i], output[i + 1])

\* Two lines with the same distance and the same z: the smaller x is first
\* although its name is the greater one.
C12_Witness ==
    /\ pc = "done"
    /\ Len(output) = 2
    /\ output[1].dist = output[2].dist
    /\ output[1].at[2] = output[2].at[2]
    /\ output[1].at[1] < output[2].at[1]
    /\ NameRank(output[1].biome) > NameRank(output[2].biome)

\* The rings 1..n in their order.
RingsTo(n) == [i \in 1..n |-> i]

OracleCalls == {c \in jvm : c.method \in {"getBiomeDataOracle", "getBiomeAt"}}

\* C14: whatever the tasks of the ring do, at most one invocation of the
\* generation oracle (getBiomeDataOracle, getBiomeAt) is in progress, and
\* the thread that makes it holds the mutex World.amidst.
C14_OracleUnderMutex ==
    /\ Cardinality(OracleCalls) <= 1
    /\ \A c \in OracleCalls : amidst = Some(c.by)

\* getBiomeAt is in progress for a region of ring 1, after the tasks of the
\* ring have run.
C14_Witness ==
    /\ distance = 1
    /\ at = <<"in", 2>>
    /\ [by |-> "main", method |-> "getBiomeAt"] \in jvm
    /\ amidst = Some("main")

\* The region, and the grid cell <<cz, cx, bz, bx>> in it, of the block
\* column q.
RegionOf(q) == <<q[1] \div RegionSize, q[2] \div RegionSize>>

CellOf(q) ==
    <<(q[2] % RegionSize) \div ChunkSize, (q[1] % RegionSize) \div ChunkSize,
      q[2] % ChunkSize, q[1] % ChunkSize>>

\* The ring of the region of the block column q.
RingOf(q) == taxicab_distance(region_coords, RegionOf(q))

\* The coordinates the stitch passes to the oracle for the block column q.
SeedOf(q) == seed_coords(RegionOf(q), CellOf(q))

\* The biome of the block column q in the stitched grid of its region: the
\* chunk's biome when the chunk slot is present, the oracle's answer
\* otherwise.
StitchedBiome(q) ==
    LET slot == region_biomes(RegionOf(q)).v[<<CellOf(q)[1], CellOf(q)[2]>>]
    IN  IF slot = None THEN seed_biome(SeedOf(q)).v
        ELSE slot[1][<<CellOf(q)[3], CellOf(q)[4]>>]

\* The block columns that can carry a biome other than Ocean in a stitched
\* grid: the columns of the save's spots, and the columns for which the
\* stitch asks the oracle at a spot.
Candidates ==
    {s.pos : s \in spots}
        \cup {<<(s.pos[2] - (s.pos[2] % ChunkSize)) + (s.pos[1] % ChunkSize),
                (s.pos[1] - (s.pos[1] % ChunkSize)) + (s.pos[2] % ChunkSize)>> : s \in spots}

\* The block columns of the regions of the rings 0..d whose biome in the
\* stitched grid is b (b is not Ocean).
Columns(b, d) == {q \in Candidates : RingOf(q) <= d /\ StitchedBiome(q) = b}

\* The last ring that has been merged as a whole.
MergedRing == IF pc = "load" THEN distance - 1 ELSE distance

\* C19: after ring d has been merged as a whole, a tracked biome has an
\* entry exactly if some block column of the rings 0..d has that biome in
\* the stitched grid of its region, and the entry is such a column, at the
\* smallest distance to the anchor of all of them.
C19_MinimumOverRings ==
    (pc \in {"load", "finish", "done"} \/ (pc = "fold" /\ partial_biomes = <<>>)) =>
        \A b \in adv_time_biomes :
            LET cols == Columns(b, MergedRing)
            IN  /\ b \in DOMAIN found <=> cols # {}
                /\ b \in DOMAIN found =>
                      /\ found[b] \in cols
                      /\ \A q \in cols : Dist(found[b]) <= Dist(q)

\* Ring 1 and more have been merged and a tracked biome has two columns in
\* one region, the first of them in loop order farther from the anchor.
C19_Witness ==
    /\ pc = "load"
    /\ distance >= 2
    /\ \E b \in adv_time_biomes :
          \E q, r \in Columns(b, MergedRing) :
             /\ RegionOf(q) = RegionOf(r)
             /\ q[2] < r[2]
             /\ Dist(r) < Dist(q)
             /\ found[b] = r

\* Every tracked biome is in the stitched grid of a region of the rings
\* 0..d.
SatisfiableWithin(d) == \A b \in adv_time_biomes : Columns(b, d) # {}

\* No load and no oracle call of the rings 0..MaxRing fails.
NoFatalError ==
    /\ defect.kind \notin {"region_io", "chunk_decode", "bid_unknown"}
    /\ defect.kind = "oracle" =>
          \A reg \in {region_coords}
                \cup UNION {Range(coords_at_distance(region_coords, d)) : d \in 1..MaxRing} :
              ~StitchFails(reg)

\* C15: a search without a fatal error whose tracked biomes are all in the
\* rings 0..MaxRing-2 (so that the two rings after them are within the rings
\* the model loads) reaches Done.
C15_Terminates ==
    (pc = "start" /\ NoFatalError /\ SatisfiableWithin(MaxRing - 2)) ~> (pc = "done")

\* The search is done after the last ring the model loads.
C15_Witness ==
    /\ pc = "done"
    /\ distance = MaxRing
    /\ first_complete = Some(MaxRing - 2)
    /\ NoFatalError

\* C16: for every block coordinate b of the range, negative ones included,
\* the region of b holds b (so the anchor is in the region of ring 0), the
\* slot index of b's chunk is the residue in 0..31 of the chunk position
\* b >> 4, the offset is in 0..15, and region, slot and offset put together
\* as at line 191 give b.
C16_Recombine ==
    (arg # <<>> /\ arg[1] = "block" /\ val # <<>>) =>
        \A i \in 1..2 :
            LET b == arg[2][i]
                r == val[1].region[i]
                c == val[1].slot[i]
                o == val[1].offset[i]
            IN  /\ 512 * r <= b /\ b < 512 * (r + 1)
                /\ c \in 0..31
                /\ \E k \in -(2 ^ IntBits)..(2 ^ IntBits) :
                      16 * (32 * k + c) <= b /\ b < 16 * (32 * k + c + 1)
                /\ o \in 0..15
                /\ 512 * r + 16 * c + o = b
                /\ val[1].block[i] = b

\* A coordinate pair with a negative x that is the last column of its chunk
\* and not in a region next to the origin has been taken apart.
C16_Witness ==
    /\ arg # <<>>
    /\ arg[1] = "block"
    /\ val # <<>>
    /\ arg[2][1] = -1025
    /\ val[1].region[1] = -3
    /\ val[1].slot[1] = 31
    /\ val[1].offset[1] = 15

\* C17: taxicab_distance(a, b) is |ax - bx| + |az - bz| for all coordinates
\* of the integer range, in every build: it does not panic, it is the same
\* for (b, a), it is zero exactly when a = b, and it is at most the sum of
\* the distances by way of any third point.
C17_TaxicabMetric ==
    (arg # <<>> /\ arg[1] = "pair" /\ val # <<>>) =>
        LET a == arg[2]
            b == arg[3]
            build == val[1].build
            d == val[1].d
        IN  /\ d # None
            /\ d[1] = Abs(a[1] - b[1]) + Abs(a[2] - b[2])
            /\ taxicab_i32(b, a, build) = d
            /\ d[1] = 0 <=> a = b
            /\ \A c \in EdgePoints :
                  LET ac == taxicab_i32(a, c, build)
                      cb == taxicab_i32(c, b, build)
                  IN  /\ ac # None
                      /\ cb # None
                      /\ d[1] <= ac[1] + cb[1]

\* C18: in every state of the search every key of the map is a tracked
\* biome, and folding a column of the region stitched last (its first and
\* its last column) with a biome that is not tracked leaves the map as it
\* is.
C18_OnlyTracked ==
    /\ DOMAIN found \subseteq adv_time_biomes
    /\ stitched # None =>
          \A b \in Biome \ adv_time_biomes :
              \A i \in {1, NCells} :
                  found_insert(found, b, block_coords(stitched[1], CellSeq[i])) = found

\* A region of a later ring with a biome that is not tracked has been
\* folded into a map that has an entry.
C18_Witness ==
    /\ pc = "fold"
    /\ distance >= 1
    /\ Len(partial_biomes) < 4 * distance
    /\ DOMAIN found # {}
    /\ "Ocean" \notin adv_time_biomes
    /\ \E q \in {<<stitched[1][1] * RegionSize, stitched[1][2] * RegionSize>>} :
          StitchedBiome(q) = "Ocean"

\* C20: total_regions is set once and keeps its value; it is set by the end
\* test of the first ring that is tested with the tracked set complete (ring
\* 1 when the set was complete after ring 0), to the regions scanned so far
\* and those of the next two rings; once it is set regions_scanned is at
\* most the total, and when the search stops it is the total.
C20_ProgressTotal ==
    [][/\ (total_regions # None) => total_regions' = total_regions
       /\ (total_regions = None /\ total_regions' # None) =>
             /\ pc = "fold"
             /\ partial_biomes = <<>>
             /\ decisions' = Append(decisions, distance)
             /\ Complete(found)
             /\ first_complete = None \/ (first_complete = Some(0) /\ distance = 1)
             /\ total_regions' = Some(regions_scanned + 4 * (distance + 1)
                                                       + 4 * (distance + 2))
       /\ (decisions' # decisions /\ Complete(found)) => total_regions' # None
       /\ (total_regions' # None) => regions_scanned' <= total_regions'[1]
       /\ (pc' \in {"finish", "done"}) =>
             /\ total_regions' # None
             /\ regions_scanned' = total_regions'[1]]_vars

\* The search is done after a ring 0 that had every tracked biome.
C20_Witness ==
    /\ pc = "done"
    /\ adv_time_biomes # {}
    /\ first_complete = Some(0)
    /\ total_regions = Some(RegionsUpTo(3))
    /\ regions_scanned = RegionsUpTo(3)

====
